---- MODULE Spec2Model ----
(***************************************************************************)
(* Model of the two command-line programs of open-diet-data:               *)
(*   scripts/generate-embeddings.py  (food-text builder, embedding         *)
(*                                    providers, pipeline main)            *)
(*   scripts/query-nih-dsld.py       (DSLD API client and presenter)       *)
(*                                                                         *)
(* Strings are TLA+ strings, built with \o as the code builds them.        *)
(* Floating-point cell values are integers counted in hundredths.          *)
(***************************************************************************)
EXTENDS Integers, Sequences, FiniteSets, TLC

VARIABLES
    \* create_food_text on one row
    trow, tres, tpc,
    \* generate-embeddings.py main
    pc, args, file, outDir, df, texts, embeddings, bi, calls, netFailed,
    outFile, exitStatus,
    \* query-nih-dsld.py main
    qpc, qargs, qreqs, qresp, qprinted, qdiag, qexit

tvars == <<trow, tres, tpc>>
evars == <<pc, args, file, outDir, df, texts, embeddings, bi, calls,
           netFailed, outFile, exitStatus>>
qvars == <<qpc, qargs, qreqs, qresp, qprinted, qdiag, qexit>>
vars == <<tvars, evars, qvars>>

------------------------------------------------------------------------------
(* Cells of a pandas row.  k is the kind of value the code sees:           *)
(*   "none" row.get() of a column the row does not have (Python None)      *)
(*   "nan"  a missing value                                                *)
(*   "num"  a float, v hundredths                                          *)
(*   "int"  an integer v                                                   *)
(*   "str"  the text s                                                     *)

None == [k |-> "none", v |-> 0, s |-> ""]
NaN == [k |-> "nan", v |-> 0, s |-> ""]
Num(x) == [k |-> "num", v |-> x, s |-> ""]
IntCell(x) == [k |-> "int", v |-> x, s |-> ""]
Str(t) == [k |-> "str", v |-> 0, s |-> t]

\* row.get(col)
RowGet(row, col) == IF col \in DOMAIN row THEN row[col] ELSE None

\* pd.notna(x)
NotNa(c) == c.k \notin {"none", "nan"}

Digit(d) == ToString(d)

\* str(x) of a non-negative float: shortest repr, at least one decimal
PyFloatStr(x) ==
    LET a == IF x < 0 THEN -x ELSE x
        whole == a \div 100
        frac == a % 100
        body == ToString(whole) \o "." \o
                (IF frac % 10 = 0 THEN Digit(frac \div 10)
                 ELSE Digit(frac \div 10) \o Digit(frac % 10))
    IN  IF x < 0 THEN "-" \o body ELSE body

\* f"{x}" / str(x)
PyStr(c) ==
    CASE c.k = "str" -> c.s
      [] c.k = "num" -> PyFloatStr(c.v)
      [] c.k = "int" -> ToString(c.v)
      [] c.k = "nan" -> "nan"
      [] OTHER -> "None"

\* f"{x:.2f}" of a positive number
Fixed2(c) ==
    LET h == IF c.k = "int" THEN c.v * 100 ELSE c.v
    IN  ToString(h \div 100) \o "." \o Digit((h % 100) \div 10) \o Digit(h % 10)

\* results of a call that may raise
Ok(t) == [ok |-> TRUE, val |-> t]
Raised(e) == [ok |-> FALSE, val |-> e]

\* sep.join(parts): TypeError unless every part is a str
RECURSIVE JoinFrom(_, _, _)
JoinFrom(sep, parts, i) ==
    IF i > Len(parts) THEN ""
    ELSE (IF i = 1 THEN "" ELSE sep) \o parts[i].s \o JoinFrom(sep, parts, i + 1)

Join(sep, parts) ==
    IF \E i \in 1..Len(parts) : parts[i].k # "str"
    THEN Raised("TypeError")
    ELSE Ok(JoinFrom(sep, parts, 1))

\* nutrients[:5]
FirstFiveCount == 5

Head5(s) == SubSeq(s, 1, IF Len(s) < FirstFiveCount THEN Len(s) ELSE FirstFiveCount)

TextCols == <<"food_description", "food_common_name", "category", "brand_name">>

nutrient_cols ==
    << <<"protein", "protein">>,
       <<"total_lipid_fat", "fat">>,
       <<"carbohydrate_by_difference", "carbs">>,
       <<"calcium_ca", "calcium">>,
       <<"iron_fe", "iron">>,
       <<"magnesium_mg", "magnesium">>,
       <<"vitamin_c_total_ascorbic_acid", "vitamin C">>,
       <<"vitamin_d3_cholecalciferol", "vitamin D">>,
       <<"vitamin_b12", "vitamin B12">> >>

\* col in row and pd.notna(row[col]) and row[col] > 0
\* "yes" / "no", or "raise" when > compares a str with 0
Qualifies(row, col) ==
    IF col \notin DOMAIN row THEN "no"
    ELSE IF ~NotNa(row[col]) THEN "no"
    ELSE IF row[col].k = "str" THEN "raise"
    ELSE IF row[col].v > 0 THEN "yes" ELSE "no"

NutrientEntry(row, i) ==
    Str(nutrient_cols[i][2] \o ": " \o Fixed2(row[nutrient_cols[i][1]]) \o "g/100g")

\* the loop over nutrient_cols, from entry i on, nutrients collected so far
RECURSIVE NutrientLoop(_, _, _)
NutrientLoop(row, i, nutrients) ==
    IF i > Len(nutrient_cols) THEN Ok(nutrients)
    ELSE LET q == Qualifies(row, nutrient_cols[i][1])
         IN  IF q = "raise" THEN Raised("TypeError")
             ELSE IF q = "yes"
                  THEN NutrientLoop(row, i + 1, Append(nutrients, NutrientEntry(row, i)))
                  ELSE NutrientLoop(row, i + 1, nutrients)

\* the four leading parts: the description as it is, the others formatted
HeaderParts(row) ==
    (IF NotNa(RowGet(row, "food_description"))
     THEN <<row["food_description"]>> ELSE <<>>)
    \o (IF NotNa(RowGet(row, "food_common_name"))
        THEN <<Str("Also known as: " \o PyStr(row["food_common_name"]))>> ELSE <<>>)
    \o (IF NotNa(RowGet(row, "category"))
        THEN <<Str("Category: " \o PyStr(row["category"]))>> ELSE <<>>)
    \o (IF NotNa(RowGet(row, "brand_name"))
        THEN <<Str("Brand: " \o PyStr(row["brand_name"]))>> ELSE <<>>)

NutrientSegment(nutrients) ==
    Str("Nutrients per 100g: " \o Join(", ", Head5(nutrients)).val)

create_food_text(row) ==
    LET loop == NutrientLoop(row, 1, <<>>)
    IN  IF ~loop.ok THEN loop
        ELSE LET parts == HeaderParts(row) \o
                          (IF loop.val # <<>>
                           THEN <<NutrientSegment(loop.val)>> ELSE <<>>)
             IN  Join(" | ", parts)

------------------------------------------------------------------------------
(* The rows create_food_text is applied to.                                *)

\* value of the i-th tracked nutrient when it is positive: i * StepValue
StepValue == 125
\* a number standing where a text is expected (7.5)
OddNumber == 750

TextSample == <<"Cheddar cheese", "cheddar", "Dairy", "Acme">>

TextFills == {"absent", "nan", "num"}
NutrientFills == {"absent", "nan", "zero", "negative", "str"}

\* a row whose text columns in D hold text and whose nutrient columns in Q
\* hold a positive float; every other column holds the fill
MakeRow(D, tfill, Q, nfill) ==
    LET tcols == {TextCols[i] : i \in IF tfill = "absent" THEN D ELSE 1..Len(TextCols)}
        ncols == {nutrient_cols[i][1] :
                    i \in IF nfill = "absent" THEN Q ELSE 1..Len(nutrient_cols)}
        tidx(c) == CHOOSE i \in 1..Len(TextCols) : TextCols[i] = c
        nidx(c) == CHOOSE i \in 1..Len(nutrient_cols) : nutrient_cols[i][1] = c
        tcell(i) == IF i \in D THEN Str(TextSample[i])
                    ELSE CASE tfill = "nan" -> NaN
                           [] OTHER -> Num(OddNumber)
        ncell(i) == IF i \in Q THEN Num(i * StepValue)
                    ELSE CASE nfill = "nan" -> NaN
                           [] nfill = "zero" -> Num(0)
                           [] nfill = "negative" -> Num(0 - StepValue)
                           [] OTHER -> Str("trace")
    IN  [c \in tcols \cup ncols |->
            IF c \in tcols THEN tcell(tidx(c)) ELSE ncell(nidx(c))]

NoResult == [ok |-> FALSE, val |-> "not called"]

TInit ==
    /\ \E D \in SUBSET (1..Len(TextCols)), tfill \in TextFills,
          Q \in SUBSET (1..Len(nutrient_cols)), nfill \in NutrientFills :
            trow = MakeRow(D, tfill, Q, nfill)
    /\ tres = NoResult
    /\ tpc = "ready"

TIdle ==
    /\ trow = <<>>
    /\ tres = NoResult
    /\ tpc = "idle"

\* texts = df.apply(create_food_text, axis=1) on one row
CreateFoodText ==
    /\ tpc = "ready"
    /\ tres' = create_food_text(trow)
    /\ tpc' = "done"
    /\ UNCHANGED trow
    /\ UNCHANGED <<evars, qvars>>

------------------------------------------------------------------------------
(* generate-embeddings.py: main and the two providers.                     *)

MaxRows == 3
MaxBatch == 2
\* vector lengths of the two models (1536 and 384 in the services)
DimRemote == 2
DimLocal == 3

\* the foods of the input file, every column present: three nutrients;
\* all nine nutrients; numbers in the description, category and brand fields
Foods ==
    << MakeRow({1, 3}, "nan", {1, 2, 4}, "zero"),
       MakeRow({1, 2, 3, 4}, "nan", 1..Len(nutrient_cols), "nan"),
       MakeRow({2}, "num", {}, "nan") >>

\* a line of the CSV file: its food, and whether its fdc_id field is filled
Lines == [food : 1..Len(Foods), id : BOOLEAN]

Missing == [exists |-> FALSE, hasId |-> FALSE, lines |-> <<>>]

Files ==
    {Missing} \cup
    { [exists |-> TRUE, hasId |-> h, lines |-> l] :
        h \in BOOLEAN,
        l \in UNION { [1..n -> Lines] : n \in 0..MaxRows } }

\* a file without the fdc_id column has no fdc_id fields; a file with the
\* column has at most one line whose field is empty
FileOk(f) ==
    IF f.hasId
    THEN Cardinality({j \in 1..Len(f.lines) : ~f.lines[j].id}) <= 1
    ELSE \A j \in 1..Len(f.lines) : ~f.lines[j].id

FdcValue(j) == 170000 + j

\* pd.read_csv: an empty field is NaN; a column holding a text is read as
\* texts throughout (a number keeps the text it has in the file); an integer
\* column with an empty field is read as floats
read_csv(f) ==
    LET anyEmpty == \E j \in 1..Len(f.lines) : ~f.lines[j].id
        idCell(j) == IF ~f.lines[j].id THEN NaN
                     ELSE IF anyEmpty THEN Num(FdcValue(j) * 100)
                     ELSE IntCell(FdcValue(j))
        food(j) == Foods[f.lines[j].food]
        textColumn(c) == \E j \in 1..Len(f.lines) : food(j)[c].k = "str"
        cell(j, c) == IF food(j)[c].k = "num" /\ textColumn(c)
                      THEN Str(PyFloatStr(food(j)[c].v))
                      ELSE food(j)[c]
    IN  [j \in 1..Len(f.lines) |->
            [c \in DOMAIN food(j) \cup (IF f.hasId THEN {"fdc_id"} ELSE {}) |->
                IF c = "fdc_id" THEN idCell(j) ELSE cell(j, c)]]

NoLimit == [given |-> FALSE, n |-> 0]
Limit(n) == [given |-> TRUE, n |-> n]

\* df.head(n)
head(frame, n) ==
    IF n >= 0
    THEN SubSeq(frame, 1, IF n < Len(frame) THEN n ELSE Len(frame))
    ELSE SubSeq(frame, 1, Len(frame) + n)

\* if args.limit: df = df.head(args.limit)
Truncate(frame, limit) ==
    IF limit.given /\ limit.n # 0 THEN head(frame, limit.n) ELSE frame

model_name(local) == IF local THEN "all-MiniLM-L6-v2" ELSE "text-embedding-3-small"

Dim(name) == IF name = "all-MiniLM-L6-v2" THEN DimLocal ELSE DimRemote

\* the vector a model gives a text: component k is the value <<t, k>>
Embed(name, t) == [k \in 1..Dim(name) |-> <<t, k>>]

\* the slice taken one text too long
BatchOneMore(ts, i, b) ==
    SubSeq(ts, i + 1, IF i + b + 1 < Len(ts) THEN i + b + 1 ELSE Len(ts))

\* texts[i:i + batch_size], i counted from 0
Batch(ts, i, b) ==
    SubSeq(ts, i + 1, IF i + b < Len(ts) THEN i + b ELSE Len(ts))

\* the loop run once more when i reaches n
InRangeInclusive(i, n, b) == IF b > 0 THEN i <= n ELSE i > n

\* i in range(0, n, b), b # 0
InRange(i, n, b) == IF b > 0 THEN i < n ELSE i > n

\* the credential tested against None only
KeyAbsentNoneOnly(key) == key = "None"

\* not api_key: os.environ.get("OPENAI_API_KEY") is None or empty
KeyAbsent(key) == key = "None" \/ key = ""

NoDocument == [written |-> FALSE]

\* str(row.get('fdc_id', i))
fdc_id(row, i) ==
    IF "fdc_id" \in DOMAIN row THEN PyStr(row["fdc_id"]) ELSE ToString(i)

Items(frame, ts, embs) ==
    [j \in 1..Len(frame) |->
        [fdc_id |-> fdc_id(frame[j], j - 1),
         text |-> ts[j],
         embedding |-> embs[j]]]

Document(name, frame, ts, embs) ==
    [written |-> TRUE,
     model |-> name,
     count |-> Len(embs),
     dimension |-> IF embs # <<>> THEN Len(embs[1]) ELSE 0,
     items |-> Items(frame, ts, embs)]

EInit ==
    /\ pc = "validate"
    /\ file \in {f \in Files : FileOk(f)}
    /\ args \in [limit : {NoLimit} \cup {Limit(n) : n \in (0 - 1)..MaxRows},
                 batch_size : (0 - 1)..MaxBatch,
                 local : BOOLEAN,
                 api_key : {"None", "", "sk-test"}]
    \* --local never reads the credential
    /\ args.local => args.api_key = "None"
    /\ outDir = FALSE
    /\ df = <<>>
    /\ texts = <<>>
    /\ embeddings = <<>>
    /\ bi = 0
    /\ calls = <<>>
    /\ netFailed = FALSE
    /\ outFile = NoDocument
    /\ exitStatus = 0 - 1

EIdle ==
    /\ pc = "idle"
    /\ file = Missing
    /\ args = [limit |-> NoLimit, batch_size |-> 0, local |-> FALSE, api_key |-> "None"]
    /\ outDir = FALSE
    /\ df = <<>>
    /\ texts = <<>>
    /\ embeddings = <<>>
    /\ bi = 0
    /\ calls = <<>>
    /\ netFailed = FALSE
    /\ outFile = NoDocument
    /\ exitStatus = 0 - 1

\* sys.exit(1), or an exception nobody catches
Exit1 ==
    /\ pc' = "exit"
    /\ exitStatus' = 1

\* the output directory made before the input is looked at
ValidateInputMkdirFirst ==
    /\ pc = "validate"
    /\ outDir' = TRUE
    /\ IF ~file.exists
       THEN Exit1
       ELSE /\ pc' = "load"
            /\ UNCHANGED exitStatus
    /\ UNCHANGED <<args, file, df, texts, embeddings, bi, calls, netFailed, outFile>>
    /\ UNCHANGED <<tvars, qvars>>

\* lines 166-173: the input must exist; then the output directory is made
ValidateInput ==
    /\ pc = "validate"
    /\ IF ~file.exists
       THEN Exit1 /\ UNCHANGED outDir
       ELSE /\ outDir' = TRUE
            /\ pc' = "load"
            /\ UNCHANGED exitStatus
    /\ UNCHANGED <<args, file, df, texts, embeddings, bi, calls, netFailed, outFile>>
    /\ UNCHANGED <<tvars, qvars>>

\* lines 175-183
LoadData ==
    /\ pc = "load"
    /\ df' = Truncate(read_csv(file), args.limit)
    /\ pc' = "texts"
    /\ UNCHANGED <<args, file, outDir, texts, embeddings, bi, calls, netFailed,
                   outFile, exitStatus>>
    /\ UNCHANGED <<tvars, qvars>>

\* line 187: df.apply(create_food_text, axis=1).tolist()
BuildTexts ==
    /\ pc = "texts"
    /\ LET built == [j \in 1..Len(df) |-> create_food_text(df[j])]
       IN  IF \E j \in 1..Len(df) : ~built[j].ok
           THEN Exit1 /\ UNCHANGED texts
           ELSE /\ texts' = [j \in 1..Len(df) |-> built[j].val]
                /\ pc' = "provider"
                /\ UNCHANGED exitStatus
    /\ UNCHANGED <<args, file, outDir, df, embeddings, bi, calls, netFailed, outFile>>
    /\ UNCHANGED <<tvars, qvars>>

\* lines 190-193 and generate_local_embeddings: the library is missing or
\* fails, or encodes every text in one call
LocalEmbeddings ==
    /\ pc = "provider"
    /\ args.local
    /\ \E ok \in BOOLEAN :
        IF ok
        THEN /\ embeddings' = [j \in 1..Len(texts) |-> Embed(model_name(TRUE), texts[j])]
             /\ pc' = "save"
             /\ UNCHANGED exitStatus
        ELSE Exit1 /\ UNCHANGED embeddings
    /\ UNCHANGED <<args, file, outDir, df, texts, bi, calls, netFailed, outFile>>
    /\ UNCHANGED <<tvars, qvars>>

\* lines 194-196 and generate_openai_embeddings up to the loop header:
\* the library, the credential, range(0, len(texts), batch_size)
OpenAIStart ==
    /\ pc = "provider"
    /\ ~args.local
    /\ \E installed \in BOOLEAN :
        IF ~installed \/ KeyAbsent(args.api_key) \/ args.batch_size = 0
        THEN Exit1
        ELSE /\ pc' = "openai_loop"
             /\ UNCHANGED exitStatus
    /\ embeddings' = <<>>
    /\ bi' = 0
    /\ UNCHANGED <<args, file, outDir, df, texts, calls, netFailed, outFile>>
    /\ UNCHANGED <<tvars, qvars>>

\* lines 98-106: one network call for one batch; a failed call raises
OpenAIBatch ==
    /\ pc = "openai_loop"
    /\ InRange(bi, Len(texts), args.batch_size)
    /\ LET batch == Batch(texts, bi, args.batch_size)
       IN  /\ calls' = Append(calls, batch)
           /\ \E ok \in BOOLEAN :
                IF ok
                THEN /\ embeddings' = embeddings \o
                            [j \in 1..Len(batch) |-> Embed(model_name(FALSE), batch[j])]
                     /\ bi' = bi + args.batch_size
                     /\ UNCHANGED <<pc, exitStatus, netFailed>>
                ELSE /\ Exit1
                     /\ netFailed' = TRUE
                     /\ UNCHANGED <<embeddings, bi>>
    /\ UNCHANGED <<args, file, outDir, df, texts, outFile>>
    /\ UNCHANGED <<tvars, qvars>>

\* line 108 and 197
OpenAIReturn ==
    /\ pc = "openai_loop"
    /\ ~InRange(bi, Len(texts), args.batch_size)
    /\ pc' = "save"
    /\ UNCHANGED <<args, file, outDir, df, texts, embeddings, bi, calls, netFailed,
                   outFile, exitStatus>>
    /\ UNCHANGED <<tvars, qvars>>

\* lines 199-224: embeddings[i] of a row without a vector is an IndexError
SaveEmbeddings ==
    /\ pc = "save"
    /\ IF Len(df) > Len(embeddings)
       THEN Exit1 /\ UNCHANGED outFile
       ELSE /\ outFile' = Document(model_name(args.local), df, texts, embeddings)
            /\ pc' = "exit"
            /\ exitStatus' = 0
    /\ UNCHANGED <<args, file, outDir, df, texts, embeddings, bi, calls, netFailed>>
    /\ UNCHANGED <<tvars, qvars>>

ENext ==
    \/ ValidateInput
    \/ LoadData
    \/ BuildTexts
    \/ LocalEmbeddings
    \/ OpenAIStart
    \/ OpenAIBatch
    \/ OpenAIReturn
    \/ SaveEmbeddings

------------------------------------------------------------------------------
(* query-nih-dsld.py: the API client, the presenter and main.              *)

DSLD_BASE_URL == "https://api.ods.od.nih.gov/dsld/v9"

\* argparse default of --limit, and of the functions' limit parameter
DefaultLimit == 10
\* timeout=30 of every requests.get
Timeout == 30
MaxLimit == 2
MaxProducts == 2

\* a dict is a set of <<key, value>> pairs
Get(d, key, default) ==
    IF \E kv \in d : kv[1] = key
    THEN (CHOOSE kv \in d : kv[1] = key)[2]
    ELSE default

Request(op, url, params) ==
    [op |-> op, url |-> url, params |-> params, timeout |-> Timeout]

search_products(query, limit) ==
    Request("search_products", DSLD_BASE_URL \o "/browse",
            {<<"name", Str(query)>>, <<"pagesize", IntCell(limit)>>,
             <<"page", IntCell(1)>>})

get_product_label(dsld_id) ==
    Request("get_product_label", DSLD_BASE_URL \o "/label/" \o dsld_id, {})

search_by_ingredient(ingredient, limit) ==
    Request("search_by_ingredient", DSLD_BASE_URL \o "/browse",
            {<<"ingredient", Str(ingredient)>>, <<"pagesize", IntCell(limit)>>,
             <<"page", IntCell(1)>>})

\* the page size left at its default
search_by_brand_default(brand, limit) ==
    Request("search_by_brand", DSLD_BASE_URL \o "/browse",
            {<<"brandname", Str(brand)>>, <<"pagesize", IntCell(DefaultLimit)>>,
             <<"page", IntCell(1)>>})

search_by_brand(brand, limit) ==
    Request("search_by_brand", DSLD_BASE_URL \o "/browse",
            {<<"brandname", Str(brand)>>, <<"pagesize", IntCell(limit)>>,
             <<"page", IntCell(1)>>})

\* the branch main takes: label, else ingredient, else brand, else product;
\* None and "" are both false
Given(a) == a # "None" /\ a # ""

Mode(a) ==
    IF Given(a.label) THEN "label"
    ELSE IF Given(a.ingredient) THEN "ingredient"
    ELSE IF Given(a.brand) THEN "brand"
    ELSE IF Given(a.product) THEN "product"
    ELSE "help"

RequestOf(a) ==
    CASE Mode(a) = "label" -> get_product_label(a.label)
      [] Mode(a) = "ingredient" -> search_by_ingredient(a.ingredient, a.limit)
      [] Mode(a) = "brand" -> search_by_brand(a.brand, a.limit)
      [] OTHER -> search_products(a.product, a.limit)

\* entries of a result list: two product objects and a value that is no object
FullProduct ==
    [dict |-> TRUE,
     f |-> {<<"dsld_id", "1234">>, <<"product_name", "Fish Oil">>,
            <<"brand_name", "Acme">>, <<"product_type", "Softgel">>,
            <<"serving_size", "1 softgel">>}]
SparseProduct == [dict |-> TRUE, f |-> {<<"product_name", "Zinc">>}]
NotAnObject == [dict |-> FALSE, f |-> {}]

Entries == {FullProduct, SparseProduct, NotAnObject}

EntryLists == UNION { [1..n -> Entries] : n \in 0..MaxProducts }

\* the value under a key of the result object: absent, null or a list
Absent == [k |-> "absent", l |-> <<>>]
Null == [k |-> "null", l |-> <<>>]
List(l) == [k |-> "list", l |-> l]

\* response bodies: text that is no JSON, a JSON array, a JSON object
Bodies ==
    { [json |-> FALSE, object |-> FALSE, products |-> Absent, data |-> Absent],
      [json |-> TRUE, object |-> FALSE, products |-> Absent, data |-> Absent] }
    \cup
    { [json |-> TRUE, object |-> TRUE, products |-> p, data |-> d] :
        p \in {Absent, Null} \cup {List(l) : l \in EntryLists},
        d \in {Absent, List(<<SparseProduct>>)} }

\* what requests.get comes back with: no response at all, or a status and a body
Responses ==
    { [transport |-> FALSE, status |-> 200, body |-> b] : b \in Bodies }
    \cup
    { [transport |-> t, status |-> st,
       body |-> [json |-> FALSE, object |-> FALSE, products |-> Absent, data |-> Absent]] :
        t \in BOOLEAN, st \in {404, 500} }

NoResponse ==
    [transport |-> FALSE, status |-> 0,
     body |-> [json |-> FALSE, object |-> FALSE, products |-> Absent, data |-> Absent]]

\* response.raise_for_status()
RaisesForStatus(r) == r.status >= 400 /\ r.status < 600

format_product(product) ==
    "  ID: " \o Get(product, "dsld_id", "N/A") \o "\n" \o
    "  Name: " \o Get(product, "product_name", "N/A") \o "\n" \o
    "  Brand: " \o Get(product, "brand_name", "N/A") \o "\n" \o
    "  Type: " \o Get(product, "product_type", "N/A") \o
    (IF \E kv \in product : kv[1] = "serving_size"
     THEN "\n" \o "  Serving: " \o Get(product, "serving_size", "") ELSE "")

\* one pass of the loop over products
PrintedEntry(i, product) ==
    ToString(i) \o ". " \o Get(product, "product_name", "Unknown") \o "\n" \o
    format_product(product)

\* result.get("products", result.get("data", []))
Products(body) ==
    IF body.products.k # "absent" THEN body.products
    ELSE IF body.data.k # "absent" THEN body.data
    ELSE List(<<>>)

\* entries printed before the loop ends or meets a value without .get
RECURSIVE PrintLoop(_, _, _)
PrintLoop(l, i, printed) ==
    IF i > Len(l) THEN [raised |-> FALSE, printed |-> printed]
    ELSE IF ~l[i].dict THEN [raised |-> TRUE, printed |-> printed]
    ELSE PrintLoop(l, i + 1, Append(printed, PrintedEntry(i, l[i].f)))

NothingPrinted == [help |-> FALSE, raw |-> FALSE, found |-> 0 - 1, entries |-> <<>>]

QInit ==
    /\ qpc = "start"
    /\ qargs \in [product : {"None", "", "fish oil"},
                  ingredient : {"None", "", "vitamin d"},
                  brand : {"None", "", "nature made"},
                  label : {"None", "", "123456"},
                  limit : {DefaultLimit} \cup (0 - 1)..MaxLimit,
                  json : BOOLEAN]
    /\ qreqs = <<>>
    /\ qresp = NoResponse
    /\ qprinted = NothingPrinted
    /\ qdiag = ""
    /\ qexit = 0 - 1

QIdle ==
    /\ qpc = "idle"
    /\ qargs = [product |-> "None", ingredient |-> "None", brand |-> "None",
                label |-> "None", limit |-> DefaultLimit, json |-> FALSE]
    /\ qreqs = <<>>
    /\ qresp = NoResponse
    /\ qprinted = NothingPrinted
    /\ qdiag = ""
    /\ qexit = 0 - 1

\* lines 139-153: no search flag
QHelp ==
    /\ qpc = "start"
    /\ Mode(qargs) = "help"
    /\ qprinted' = [qprinted EXCEPT !.help = TRUE]
    /\ qexit' = 0
    /\ qpc' = "exit"
    /\ UNCHANGED <<qargs, qreqs, qresp, qdiag>>
    /\ UNCHANGED <<tvars, evars>>

\* the requests.get of the branch taken
QSend ==
    /\ qpc = "start"
    /\ Mode(qargs) # "help"
    /\ qreqs' = Append(qreqs, RequestOf(qargs))
    /\ qpc' = "await"
    /\ UNCHANGED <<qargs, qresp, qprinted, qdiag, qexit>>
    /\ UNCHANGED <<tvars, evars>>

\* the rest of the branch, and the two except clauses
QFail(diag) ==
    /\ qdiag' = diag
    /\ qexit' = 1

\* lines 210-215: a RequestException is caught and reported
QTransportOrStatus ==
    /\ qpc = "await"
    /\ \E r \in Responses :
        /\ r.transport \/ RaisesForStatus(r)
        /\ qresp' = r
    /\ QFail("Error querying NIH DSLD API")
    /\ qpc' = "exit"
    /\ UNCHANGED <<qargs, qreqs, qprinted>>
    /\ UNCHANGED <<tvars, evars>>

\* response.json() of a body that is no JSON: the exception is requests' own
\* (a RequestException) or json's, by the version of requests
QBadJson ==
    /\ qpc = "await"
    /\ \E r \in Responses :
        /\ ~r.transport /\ ~RaisesForStatus(r) /\ ~r.body.json
        /\ qresp' = r
    /\ \E diag \in {"Error querying NIH DSLD API", "Error parsing API response"} :
        QFail(diag)
    /\ qpc' = "exit"
    /\ UNCHANGED <<qargs, qreqs, qprinted>>
    /\ UNCHANGED <<tvars, evars>>

\* lines 156-166 and the --json branches: the document is dumped as it is
QPrintRaw ==
    /\ qpc = "await"
    /\ Mode(qargs) = "label" \/ qargs.json
    /\ \E r \in Responses :
        /\ ~r.transport /\ ~RaisesForStatus(r) /\ r.body.json
        /\ qresp' = r
    /\ qprinted' = [qprinted EXCEPT !.raw = TRUE]
    /\ qexit' = 0
    /\ qpc' = "exit"
    /\ UNCHANGED <<qargs, qreqs, qdiag>>
    /\ UNCHANGED <<tvars, evars>>

\* lines 175-180, 189-194, 203-208: the formatted list.  .get of a value that
\* is no object, and len(None), raise an error no except clause names
QPrintList ==
    /\ qpc = "await"
    /\ Mode(qargs) # "label" /\ ~qargs.json
    /\ \E r \in Responses :
        /\ ~r.transport /\ ~RaisesForStatus(r) /\ r.body.json
        /\ qresp' = r
        /\ IF ~r.body.object \/ Products(r.body).k = "null"
           THEN /\ QFail("Traceback")
                /\ UNCHANGED qprinted
           ELSE LET l == Products(r.body).l
                    loop == PrintLoop(l, 1, <<>>)
                IN  /\ qprinted' = [qprinted EXCEPT !.found = Len(l),
                                                    !.entries = loop.printed]
                    /\ IF loop.raised
                       THEN QFail("Traceback")
                       ELSE qexit' = 0 /\ UNCHANGED qdiag
    /\ qpc' = "exit"
    /\ UNCHANGED <<qargs, qreqs>>
    /\ UNCHANGED <<tvars, evars>>

QNext ==
    \/ QHelp
    \/ QSend
    \/ QTransportOrStatus
    \/ QBadJson
    \/ QPrintRaw
    \/ QPrintList

------------------------------------------------------------------------------
(* Specifications.                                                         *)

\* create_food_text on every row of the family
InitText == TInit /\ EIdle /\ QIdle
NextText == CreateFoodText
SpecText == InitText /\ [][NextText]_vars

\* one run of generate-embeddings.py
InitEmbed == EInit /\ TIdle /\ QIdle
SpecEmbed == InitEmbed /\ [][ENext]_vars

\* one run of query-nih-dsld.py
InitQuery == QInit /\ TIdle /\ EIdle
SpecQuery == InitQuery /\ [][QNext]_vars

------------------------------------------------------------------------------
(* Helpers of the properties.                                              *)

Min(a, b) == IF a < b THEN a ELSE b

\* s occurs in t at position i
OccursAt(t, s, i) == i + Len(s) - 1 <= Len(t) /\ SubSeq(t, i, i + Len(s) - 1) = s

Occurrences(t, s) == Cardinality({i \in 1..Len(t) : OccursAt(t, s, i)})

EndsWith(t, s) == Len(s) <= Len(t) /\ OccursAt(t, s, Len(t) - Len(s) + 1)

\* the elements of a set of numbers, smallest first
RECURSIVE Ascending(_)
Ascending(S) ==
    IF S = {} THEN <<>>
    ELSE LET m == CHOOSE x \in S : \A y \in S : x <= y
         IN  <<m>> \o Ascending(S \ {m})

\* the tracked nutrients of a row that are present, not missing and > 0
Qualifying(row) ==
    {i \in 1..Len(nutrient_cols) :
        /\ nutrient_cols[i][1] \in DOMAIN row
        /\ row[nutrient_cols[i][1]].k \in {"num", "int"}
        /\ row[nutrient_cols[i][1]].v > 0}

\* the segment that lists the nutrients idx, in that order
RECURSIVE Listed(_, _, _)
Listed(row, idx, j) ==
    IF j > Len(idx) THEN ""
    ELSE (IF j = 1 THEN "" ELSE ", ")
         \o nutrient_cols[idx[j]][2] \o ": "
         \o Fixed2(row[nutrient_cols[idx[j]][1]]) \o "g/100g"
         \o Listed(row, idx, j + 1)

ExpectedSegment(row) ==
    LET all == Ascending(Qualifying(row))
    IN  "Nutrients per 100g: " \o Listed(row, SubSeq(all, 1, Min(5, Len(all))), 1)

\* every field of the row is missing
AllMissing(row) == \A c \in DOMAIN row : row[c].k = "nan"

\* texts handed to the remote provider, over all calls
RECURSIVE SentFrom(_, _)
SentFrom(cs, k) == IF k > Len(cs) THEN <<>> ELSE cs[k] \o SentFrom(cs, k + 1)

Sent == SentFrom(calls, 1)

Remote == model_name(FALSE)

\* the k-th consecutive slice of size b of ts
Slice(ts, k, b) == SubSeq(ts, (k - 1) * b + 1, Min(k * b, Len(ts)))

\* k = ceil(n / b) for b >= 1
IsCeil(k, n, b) == IF n = 0 THEN k = 0 ELSE (k - 1) * b < n /\ n <= k * b

------------------------------------------------------------------------------
(* Properties.                                                             *)

\* C1: in every run that writes the document, count = number of items =
\* number of rows left in df after the row limit, item i carries the text
\* built from row i and the vector the document's model gives that text, and
\* every vector has the length the document's dimension field states.
C1_DocumentMatchesRows ==
    outFile.written =>
        /\ outFile.count = Len(outFile.items)
        /\ Len(outFile.items) = Len(df)
        /\ df = Truncate(read_csv(file), args.limit)
        /\ outFile.model = model_name(args.local)
        /\ \A j \in 1..Len(outFile.items) :
            /\ create_food_text(df[j]).ok
            /\ outFile.items[j].text = create_food_text(df[j]).val
            /\ outFile.items[j].embedding =
                    Embed(outFile.model, outFile.items[j].text)
            /\ Len(outFile.items[j].embedding) = outFile.dimension

\* a remote run of three rows cut to two by --limit, sent in two batches
C1_Witness ==
    /\ outFile.written
    /\ ~args.local
    /\ args.limit.given /\ args.limit.n = 2
    /\ Len(file.lines) = 3
    /\ Len(outFile.items) = 2
    /\ Len(calls) = 2
    /\ outFile.items[1].text # outFile.items[2].text

\* C2 (as stated, for the limits N >= 0): with --limit N and N smaller than
\* the number of rows of the file, a run that succeeds has built N texts,
\* sent N texts to the provider and written N items.
C2_ExactlyNRows ==
    (/\ pc = "exit" /\ exitStatus = 0
     /\ args.limit.given
     /\ args.limit.n >= 0
     /\ args.limit.n < Len(file.lines)) =>
        /\ Len(df) = args.limit.n
        /\ Len(texts) = args.limit.n
        /\ (~args.local => Len(Sent) = args.limit.n)
        /\ Len(outFile.items) = args.limit.n

\* C3: with the remote provider chosen and the credential absent or empty,
\* no network call is ever issued, the run never gets past the credential
\* check, the output file is never written, and the run ends with status 1.
C3_NoCredentialNoCall ==
    (~args.local /\ (args.api_key = "None" \/ args.api_key = "")) =>
        /\ calls = <<>>
        /\ ~outFile.written
        /\ pc \in {"validate", "load", "texts", "provider", "exit"}
        /\ pc = "exit" => exitStatus = 1

\* the run ended at the credential check, its texts built
C3_Witness ==
    /\ ~args.local /\ args.api_key = ""
    /\ pc = "exit" /\ exitStatus = 1
    /\ Len(texts) = 2
    /\ args.batch_size = 1

\* C4: when the input path does not exist the run ends with status 1, the
\* output directory is not made, nothing is loaded, no provider is called
\* and no output file is written.
C4_MissingInputNoWrites ==
    ~file.exists =>
        /\ ~outDir
        /\ pc \in {"validate", "exit"}
        /\ df = <<>> /\ texts = <<>> /\ embeddings = <<>>
        /\ calls = <<>>
        /\ ~outFile.written
        /\ pc = "exit" => exitStatus = 1

C4_Witness == ~file.exists /\ pc = "exit" /\ exitStatus = 1 /\ ~outDir

\* C5 (as stated, for the rows with more than five qualifying nutrients):
\* create_food_text returns a text that ends with the segment listing the
\* first five qualifying nutrients in the order of nutrient_cols, and lists
\* exactly five nutrients.
C5_ExactlyFiveListed ==
    (tpc = "done" /\ Cardinality(Qualifying(trow)) > 5) =>
        /\ tres.ok
        /\ EndsWith(tres.val, ExpectedSegment(trow))
        /\ Occurrences(tres.val, "Nutrients per 100g") = 1
        /\ Occurrences(tres.val, "g/100g") = 5

\* What holds of C5: whenever create_food_text returns, its text ends with
\* the segment listing the first five qualifying nutrients (all of them when
\* there are five or fewer) in the order of nutrient_cols, lists no other
\* nutrient, and holds no "Nutrients per 100g" when no nutrient qualifies.
FirstFiveInOrderWhenReturned ==
    (tpc = "done" /\ tres.ok) =>
        IF Qualifying(trow) = {}
        THEN Occurrences(tres.val, "Nutrients per 100g") = 0
        ELSE /\ EndsWith(tres.val, ExpectedSegment(trow))
             /\ Occurrences(tres.val, "Nutrients per 100g") = 1
             /\ Occurrences(tres.val, "g/100g") = Min(5, Cardinality(Qualifying(trow)))

\* C6 (as stated): create_food_text never raises, and returns the empty
\* string when every field is missing.
C6_NeverRaises ==
    tpc = "done" =>
        /\ tres.ok
        /\ AllMissing(trow) => tres.val = ""

\* C7 (as stated): every request the query tool issues carries pagesize
\* equal to --limit.
C7_EveryRequestHasPagesize ==
    \A k \in 1..Len(qreqs) :
        Get(qreqs[k].params, "pagesize", None) = IntCell(qargs.limit)

\* C7 (amended): at most one GET is issued per run; a search by product,
\* ingredient or brand carries pagesize = --limit (10 when not given) and
\* page = 1; the label request carries no query parameter at all.
C7_SearchesCarryPagesize ==
    /\ Len(qreqs) <= 1
    /\ \A k \in 1..Len(qreqs) :
        /\ qreqs[k].timeout = 30
        /\ IF Mode(qargs) = "label"
           THEN qreqs[k].params = {}
           ELSE /\ Get(qreqs[k].params, "pagesize", None) = IntCell(qargs.limit)
                /\ Get(qreqs[k].params, "page", None) = IntCell(1)
                /\ Cardinality(qreqs[k].params) = 3

\* a brand search with --limit 2
C7_Witness ==
    /\ Len(qreqs) = 1
    /\ qreqs[1].op = "search_by_brand"
    /\ qargs.limit = 2
    /\ Get(qreqs[1].params, "pagesize", None) = IntCell(2)

\* C8 (as stated): a run whose request met a transport failure, an error
\* status or a body that is no JSON ends with status 1, a diagnostic, one GET
\* and no entry printed; every other run, and the help run, ends with 0.
C8_ExitStatus ==
    qpc = "exit" =>
        IF Len(qreqs) = 0
        THEN qexit = 0
        ELSE IF qresp.transport \/ RaisesForStatus(qresp) \/ ~qresp.body.json
             THEN /\ qexit = 1 /\ qdiag # ""
                  /\ Len(qreqs) = 1
                  /\ qprinted.entries = <<>>
             ELSE qexit = 0

\* C9 (as stated): an item's fdc_id is the identifier of its row in the
\* file when the row has one, and the 0-based position of the row otherwise.
C9_IdentifierOrIndex ==
    outFile.written =>
        \A j \in 1..Len(outFile.items) :
            outFile.items[j].fdc_id =
                IF file.hasId /\ file.lines[j].id
                THEN ToString(FdcValue(j))
                ELSE ToString(j - 1)

\* C10 (as stated): whatever the batch size, when the remote provider
\* returns, its calls are the consecutive slices of size b of the texts,
\* ceil(n / b) of them, and its result is one vector per text, in order.
C10_AnyBatchSize ==
    (~args.local /\ pc = "save") =>
        /\ Sent = texts
        /\ \A k \in 1..Len(calls) : calls[k] = Slice(texts, k, args.batch_size)
        /\ IsCeil(Len(calls), Len(texts), args.batch_size)
        /\ embeddings = [j \in 1..Len(texts) |-> Embed(Remote, texts[j])]

\* C10 (amended): for b >= 1 the k-th call carries the k-th consecutive slice
\* of size b, a call is issued only after the results of all earlier calls
\* are in, the provider returns after ceil(n / b) calls with one vector per
\* text in order, and a failed call ends the run with status 1, no later
\* call and no output file.  For b = 0 the run ends before any call; for
\* b < 0 no call is issued and no vector returned, so no file is written
\* unless there are no rows.
C10_BatchesInOrder ==
    ~args.local =>
        /\ args.batch_size >= 1 =>
            /\ \A k \in 1..Len(calls) :
                calls[k] = Slice(texts, k, args.batch_size) /\ calls[k] # <<>>
            /\ embeddings =
                 [j \in 1..Min(Len(texts),
                               args.batch_size *
                                 (Len(calls) - IF netFailed THEN 1 ELSE 0)) |->
                    Embed(Remote, texts[j])]
            /\ pc = "save" =>
                /\ IsCeil(Len(calls), Len(texts), args.batch_size)
                /\ Len(embeddings) = Len(texts)
            /\ netFailed => pc = "exit" /\ exitStatus = 1 /\ ~outFile.written
        /\ args.batch_size = 0 =>
            calls = <<>> /\ ~outFile.written /\ pc # "openai_loop" /\ pc # "save"
        /\ args.batch_size < 0 =>
            /\ calls = <<>> /\ embeddings = <<>>
            /\ outFile.written => Len(texts) = 0

\* three texts in batches of two: the second call carries the last text
C10_Witness ==
    /\ ~args.local /\ pc = "save"
    /\ args.batch_size = 2
    /\ Len(texts) = 3
    /\ Len(calls) = 2
    /\ calls[2] = <<texts[3]>>
    /\ Len(embeddings) = 3

====
